---- MODULE Spec2Model ----
(***************************************************************************)
(* Commit navigation of git-branchless (src/src/commands/navigation.rs):   *)
(* the traversal engine `advance`, the selection prompt `prompt_for_range` *)
(* and the orchestrators `prev`, `next` and `pick`.                        *)
(*                                                                         *)
(* One behaviour is one run of the command-line process: the repository    *)
(* (commit graph, obsolete set, commit times, HEAD) is drawn in Init, one  *)
(* command is started with its arguments, and its handler runs to the      *)
(* return.  Everything the handler does to the outside world (children     *)
(* queries, writes to the two streams, reads of standard input, checkout   *)
(* requests, smartlog refreshes) is appended to `log` in program order.    *)
(*                                                                         *)
(* The external collaborators (repository, DAG queries, streams, smartlog) *)
(* answer without an error; the checkout runner answers with any exit     *)
(* code of ExitCodes.  The commit graphs are trees: advance only asks for  *)
(* the children of a commit, which a second parent does not change.        *)
(***************************************************************************)
EXTENDS Integers, Sequences, FiniteSets, TLC

\* ------------------------------------------------------------------ bounds

\* Commits of the repository are 1..NumCommits; commit 1 is the root.
NumCommits == 5
\* Largest step count handed to prev / next (the smallest is -1).
MaxCount == 3
\* Most rewrite events in the event log when a command starts under
\* SpecConcurrent, and most that another process appends while it runs.
MaxRewrites == 1

Commits == 1..NumCommits
Counts == (-1)..MaxCount

\* Option<NonZeroOid>::None: an object id is never zero.
NoneOid == 0
\* Option<isize>::None for the optional count of prev / next.
NoCount == -2
\* Option<usize>::None returned by prompt_for_range.
NoSelection == -1

\* Exit codes the external checkout runner may answer with.
ExitCodes == {0, 128}

\* HEAD of the repository: none, the root commit, or its first child.
Heads == {NoneOid, 1, 2}

\* Option<Towards>
Policies == {"None", "Newest", "Oldest"}

\* Lines standard input may deliver to read_line, as character sequences
\* (the empty line is end of input).
InputLines ==
    { <<>>, <<"\n">>, <<"a", "\n">>, <<"0", "\n">>, <<"1", "\n">>, <<"2", "\n">>,
      <<" ", "2", " ", "\n">>, <<"3", "\n">>, <<"+", "1", "\n">>, <<"-", "1", "\n">>,
      <<"4", "\n">>, <<"5", "\n">>, <<"6", "\n">>, <<"7", "\n">>, <<"1", "0", "\n">>,
      <<"2", "x", "\n">> }

VARIABLES
    commit_parent,   \* repository: parent of every commit (NoneOid for the root)
    commit_time,     \* repository: commit time of every commit
    obsolete,        \* repository: commits the event log marks obsolete
    head_oid,        \* references_snapshot.head_oid (Option<NonZeroOid>)
    pc,              \* position of the running handler
    cmd,             \* the command that was started
    num_commits,     \* its count argument (after unwrap_or in next)
    towards,         \* its Option<Towards> argument
    interactive,     \* its interactive flag
    dag,             \* the Dag opened by next / pick (snapshot), or closed
    current_oid,     \* advance: local current_oid
    i,               \* advance: loop variable
    advanced,        \* what advance returned to next
    selected,        \* what the last call of prompt_for_range returned
    numbered_nodes,  \* pick: the numbering number_nodes returned
    result,          \* what the orchestrator returned
    log,             \* effects on the outside world, in program order
    prompt_in,       \* prompt_for_range called on its own: the line it reads
    prompt_min,      \* prompt_for_range called on its own: min
    prompt_max,      \* prompt_for_range called on its own: max
    appended         \* commits another process marked obsolete after the Dag
                     \* was opened

vars == << commit_parent, commit_time, obsolete, head_oid, pc, cmd, num_commits,
           towards, interactive, dag, current_oid, i, advanced, selected,
           numbered_nodes, result, log, prompt_in, prompt_min, prompt_max,
           appended >>

repo == << commit_parent, commit_time, obsolete, head_oid >>

prompt_call == << prompt_in, prompt_min, prompt_max >>

\* ------------------------------------------------------------ the repository

\* Commit graphs: trees rooted at commit 1, commits numbered breadth first.
CommitGraphs ==
    { p \in [Commits -> 0..(NumCommits - 1)] :
        /\ p[1] = NoneOid
        /\ \A c \in Commits \ {1} : p[c] >= 1 /\ p[c] < c
        /\ \A c \in Commits \ {1, NumCommits} : p[c] <= p[c + 1] }

\* Commit times: all commits in the same second (the identifier breaks the
\* tie), or every commit older than its parent (as after a rebase that keeps
\* timestamps).
CommitTimes ==
    { [c \in Commits |-> 0], [c \in Commits |-> NumCommits - c] }

ClosedDag == [open |-> FALSE, parent |-> <<>>, obsolete_commits |-> {}]

OpenAndSync == [open |-> TRUE, parent |-> commit_parent, obsolete_commits |-> obsolete]

\* dag.query().children(set)
DagChildren(d, set) == { c \in DOMAIN d.parent : d.parent[c] \in set }

\* CommitSet::difference
Difference(a, b) == a \ b

\* Canonical order: ascending commit time, then identifier.
CanonicalBefore(a, b) ==
    \/ commit_time[a] < commit_time[b]
    \/ commit_time[a] = commit_time[b] /\ a < b

RECURSIVE SortCommitSet(_)
SortCommitSet(set) ==
    IF set = {} THEN <<>>
    ELSE LET first == CHOOSE a \in set : \A b \in set \ {a} : CanonicalBefore(a, b)
         IN  <<first>> \o SortCommitSet(set \ {first})

\* ------------------------------------------------------------------ effects

Event(op, what, n) == [op |-> op, what |-> what, n |-> n]

QueryChildren(c) == Event("children", "", c)
WriteOut(msg, n) == Event("stdout", msg, n)
WriteErr(msg, n) == Event("stderr", msg, n)
ReadLine == Event("read_line", "", 0)
RunCheckout(what, n) == Event("checkout", what, n)
RunnerExit(code) == Event("exit_code", "", code)
Smartlog == Event("smartlog", "", 0)

\* eyre::Result<isize> of an orchestrator; Running while it has not returned.
Ok(code) == [kind |-> "Ok", code |-> code]
Err == [kind |-> "Err", code |-> 0]
Running == [kind |-> "Running", code |-> 0]
\* Option::expect on None: the process panics.
Panic == [kind |-> "Panic", code |-> 0]

\* ---------------------------------------------------------- prompt_for_range

Digits == {"0", "1", "2", "3", "4", "5", "6", "7", "8", "9"}
Whitespace == {" ", "\n", "\t", "\r"}

DigitValue(ch) ==
    CASE ch = "0" -> 0 [] ch = "1" -> 1 [] ch = "2" -> 2 [] ch = "3" -> 3
      [] ch = "4" -> 4 [] ch = "5" -> 5 [] ch = "6" -> 6 [] ch = "7" -> 7
      [] ch = "8" -> 8 [] ch = "9" -> 9

\* str::trim
RECURSIVE Trim(_)
Trim(s) ==
    IF s = <<>> THEN s
    ELSE IF Head(s) \in Whitespace THEN Trim(Tail(s))
    ELSE IF s[Len(s)] \in Whitespace THEN Trim(SubSeq(s, 1, Len(s) - 1))
    ELSE s

RECURSIVE DigitsValue(_, _)
DigitsValue(s, acc) ==
    IF s = <<>> THEN acc ELSE DigitsValue(Tail(s), 10 * acc + DigitValue(Head(s)))

\* str::parse::<usize>().unwrap_or(0): an optional "+" and one or more digits.
ParseUsizeOr0(s) ==
    LET body == IF s # <<>> /\ Head(s) = "+" THEN Tail(s) ELSE s
    IN  IF body # <<>> /\ \A k \in 1..Len(body) : body[k] \in Digits
        THEN DigitsValue(body, 0)
        ELSE 0

PromptSelectionExclusiveMax(line, min, max) ==
    LET sel == ParseUsizeOr0(Trim(line))
    IN  IF sel < min \/ sel >= max THEN NoSelection ELSE sel

\* The value prompt_for_range returns for the line read.
PromptSelection(line, min, max) ==
    LET sel == ParseUsizeOr0(Trim(line))
    IN  IF sel < min \/ sel > max THEN NoSelection ELSE sel

\* The effects of prompt_for_range for the line read.
PromptEffects(line, min, max) ==
    << WriteOut("select_prompt", max), ReadLine >>
    \o (IF PromptSelection(line, min, max) = NoSelection
        THEN << WriteErr("invalid_selection", max) >>
        ELSE << >>)


\* --------------------------------------------------------------------- Init

Init ==
    /\ commit_parent \in CommitGraphs
    /\ commit_time \in CommitTimes
    /\ obsolete \in SUBSET Commits
    /\ head_oid \in Heads
    /\ pc = "idle"
    /\ cmd = "none"
    /\ num_commits = NoCount
    /\ towards = "None"
    /\ interactive = FALSE
    /\ dag = ClosedDag
    /\ current_oid = NoneOid
    /\ i = 0
    /\ advanced = NoneOid
    /\ selected = NoSelection
    /\ numbered_nodes = <<>>
    /\ result = Running
    /\ log = <<>>
    /\ prompt_in = <<>>
    /\ prompt_min = 0
    /\ prompt_max = 0
    /\ appended = {}

\* --------------------------------------------------------------------- prev

PrevTargetOffByOne(n) ==
    IF n = NoCount THEN RunCheckout("HEAD~", 0) ELSE RunCheckout("HEAD~", n - 1)

\* The revision prev asks the runner to check out.
PrevTarget(n) ==
    IF n = NoCount THEN RunCheckout("HEAD^", 1) ELSE RunCheckout("HEAD~", n)

\* What prev returns when the runner's exit code is not 0.
PrevFailed(exit_code) == Ok(exit_code)

\* prev up to the return on a failed checkout.
PrevCheckout(n, exit_code) ==
    /\ pc = "idle"
    /\ cmd' = "prev"
    /\ num_commits' = n
    /\ log' = log \o << PrevTarget(n), RunnerExit(exit_code) >>
    /\ IF exit_code # 0
       THEN /\ result' = PrevFailed(exit_code)
            /\ pc' = "done"
       ELSE /\ result' = result
            /\ pc' = "prev_smartlog"
    /\ UNCHANGED << repo, prompt_call, appended, numbered_nodes, towards, interactive,
                    dag, current_oid, i, advanced, selected >>

\* prev after a successful checkout.
PrevSmartlog ==
    /\ pc = "prev_smartlog"
    /\ log' = Append(log, Smartlog)
    /\ result' = Ok(0)
    /\ pc' = "done"
    /\ UNCHANGED << repo, prompt_call, appended, numbered_nodes, cmd, num_commits,
                    towards, interactive, dag, current_oid,
                    i, advanced, selected >>

\* ------------------------------------------------------------------ advance

LoopContinuesInclusive == i <= num_commits

\* for i in 0..num_commits: the range still holds i.
LoopContinues == i < num_commits

\* Rust's zero-based slice index.
Index0(seq, k) == seq[k + 1]

AdvanceChildrenLive ==
    SortCommitSet(Difference(DagChildren(dag, {current_oid}), obsolete))

AdvanceChildrenUnfiltered == SortCommitSet(DagChildren(dag, {current_oid}))

\* children of current_oid that are not obsolete, in canonical order
AdvanceChildren ==
    SortCommitSet(Difference(DagChildren(dag, {current_oid}), dag.obsolete_commits))

\* The listing written when the next commit is ambiguous.
AmbiguityListing(children) ==
    << WriteOut("multiple_next_commits", i) >>
    \o [j \in 1..Len(children) |-> WriteOut("child", children[j])]

PolicyChildAlwaysFirst(children) == Index0(children, 0)

\* The child an explicit policy or a sole child selects.
PolicyChild(children) ==
    CASE Len(children) = 1 -> Index0(children, 0)
      [] Len(children) >= 2 /\ towards = "Newest" -> Index0(children, Len(children) - 1)
      [] Len(children) >= 2 /\ towards = "Oldest" -> Index0(children, 0)

\* The effects of one iteration up to the match on the children.
AdvanceQuery == Append(log, QueryChildren(current_oid))

AdvanceBreakCancels ==
    /\ Len(AdvanceChildren) = 0
    /\ log' = AdvanceQuery
    /\ advanced' = NoneOid
    /\ pc' = "advanced"
    /\ UNCHANGED << current_oid, i, selected >>

\* (_, []) => break, and the Ok(Some(current_oid)) after the loop.
AdvanceBreak ==
    /\ Len(AdvanceChildren) = 0
    /\ log' = AdvanceQuery
    /\ advanced' = current_oid
    /\ pc' = "advanced"
    /\ UNCHANGED << current_oid, i, selected >>

\* (_, [only_child]), (Some(Newest), [.., newest_child]) and
\* (Some(Oldest), [oldest_child, ..])
AdvanceMove ==
    /\ Len(AdvanceChildren) = 1 \/ (Len(AdvanceChildren) >= 2 /\ towards # "None")
    /\ log' = AdvanceQuery
    /\ current_oid' = PolicyChild(AdvanceChildren)
    /\ i' = i + 1
    /\ UNCHANGED << pc, advanced, selected >>

PromptGuardOnSoleChild ==
    Len(AdvanceChildren) >= 1 /\ towards = "None" /\ interactive

PromptGuardIgnoresPolicy ==
    Len(AdvanceChildren) >= 2 /\ interactive

\* The arm (None, [_, _, ..]) is taken and interactive is set.
PromptGuard ==
    Len(AdvanceChildren) >= 2 /\ towards = "None" /\ interactive

PromptedChildReversed(children, sel) == Index0(children, Len(children) - sel)

\* Some(selected) => children[selected - 1].get_oid()
PromptedChild(children, sel) == Index0(children, sel - 1)

PromptDeclinedKeepsProgress == current_oid

\* None => return Ok(None)
PromptDeclined == NoneOid

\* (None, [_, _, ..]) when interactive: the listing and the prompt.
AdvancePrompt ==
    /\ PromptGuard
    /\ \E line \in InputLines :
          LET children == AdvanceChildren
              sel == PromptSelection(line, 1, Len(children))
          IN  /\ log' = AdvanceQuery \o AmbiguityListing(children)
                                     \o PromptEffects(line, 1, Len(children))
              /\ selected' = sel
              /\ IF sel # NoSelection
                 THEN /\ current_oid' = PromptedChild(children, sel)
                      /\ i' = i + 1
                      /\ UNCHANGED << pc, advanced >>
                 ELSE /\ advanced' = PromptDeclined
                      /\ pc' = "advanced"
                      /\ UNCHANGED << current_oid, i >>

AdvanceHintKeepsProgress ==
    /\ Len(AdvanceChildren) >= 2 /\ towards = "None" /\ ~interactive
    /\ log' = AdvanceQuery \o AmbiguityListing(AdvanceChildren)
                           \o << WriteOut("pass_oldest_or_newest", 0) >>
    /\ advanced' = current_oid
    /\ pc' = "advanced"
    /\ UNCHANGED << current_oid, i, selected >>

\* (None, [_, _, ..]) when not interactive: the listing, the hint, Ok(None).
AdvanceHint ==
    /\ Len(AdvanceChildren) >= 2 /\ towards = "None" /\ ~interactive
    /\ log' = AdvanceQuery \o AmbiguityListing(AdvanceChildren)
                           \o << WriteOut("pass_oldest_or_newest", 0) >>
    /\ advanced' = NoneOid
    /\ pc' = "advanced"
    /\ UNCHANGED << current_oid, i, selected >>

\* One iteration of the loop of advance.
AdvanceStep ==
    /\ pc = "advance"
    /\ LoopContinues
    /\ \/ AdvanceBreak
       \/ AdvanceMove
       \/ AdvancePrompt
       \/ AdvanceHint
    /\ UNCHANGED << repo, prompt_call, appended, numbered_nodes, cmd, num_commits,
                    towards, interactive, dag, result >>

\* The loop of advance is over: Ok(Some(current_oid)).
AdvanceReturn ==
    /\ pc = "advance"
    /\ ~LoopContinues
    /\ advanced' = current_oid
    /\ pc' = "advanced"
    /\ UNCHANGED << repo, prompt_call, appended, numbered_nodes, cmd, num_commits,
                    towards, interactive, dag, current_oid, i,
                    selected, result, log >>

\* --------------------------------------------------------------------- next

UnwrapOr(opt, default) == IF opt = NoCount THEN default ELSE opt

NextBeginWithoutHeadCheck(n, tw, inter) ==
    /\ pc = "idle"
    /\ cmd' = "next"
    /\ towards' = tw
    /\ interactive' = inter
    /\ dag' = OpenAndSync
    /\ num_commits' = UnwrapOr(n, 1)
    /\ current_oid' = head_oid
    /\ pc' = "advance"
    /\ UNCHANGED << repo, prompt_call, appended, numbered_nodes, i, advanced,
                    selected, log, result >>

\* next up to the call of advance.
NextBegin(n, tw, inter) ==
    /\ pc = "idle"
    /\ cmd' = "next"
    /\ towards' = tw
    /\ interactive' = inter
    /\ dag' = OpenAndSync
    /\ IF head_oid = NoneOid
       THEN /\ result' = Err
            /\ pc' = "done"
            /\ UNCHANGED << num_commits, current_oid >>
       ELSE /\ num_commits' = UnwrapOr(n, 1)
            /\ current_oid' = head_oid
            /\ pc' = "advance"
            /\ result' = result
    /\ UNCHANGED << repo, prompt_call, appended, numbered_nodes, i, advanced, selected, log >>

\* next when advance returned None.
NextCancelled ==
    /\ pc = "advanced"
    /\ advanced = NoneOid
    /\ result' = Ok(1)
    /\ pc' = "done"
    /\ UNCHANGED << repo, prompt_call, appended, numbered_nodes, cmd, num_commits,
                    towards, interactive, dag, current_oid, i,
                    advanced, selected, log >>

\* What next returns when the runner's exit code is not 0.
NextFailed(exit_code) == Ok(exit_code)

\* next when advance returned a commit, up to the return on a failed checkout.
NextCheckout(exit_code) ==
    /\ pc = "advanced"
    /\ advanced # NoneOid
    /\ log' = log \o << RunCheckout("oid", advanced), RunnerExit(exit_code) >>
    /\ IF exit_code # 0
       THEN /\ result' = NextFailed(exit_code)
            /\ pc' = "done"
       ELSE /\ result' = result
            /\ pc' = "next_smartlog"
    /\ UNCHANGED << repo, prompt_call, appended, numbered_nodes, cmd, num_commits,
                    towards, interactive, dag, current_oid, i,
                    advanced, selected >>

\* next after a successful checkout.
NextSmartlog ==
    /\ pc = "next_smartlog"
    /\ log' = Append(log, Smartlog)
    /\ result' = Ok(0)
    /\ pc' = "done"
    /\ UNCHANGED << repo, prompt_call, appended, numbered_nodes, cmd, num_commits,
                    towards, interactive, dag, current_oid,
                    i, advanced, selected >>

\* --------------------------------------------------------------------- pick

\* The nodes of the smartlog graph: the visible commits.
MakeSmartlogGraph(d) == DOMAIN d.parent \ d.obsolete_commits

\* number_nodes: the visible commits numbered in the order rendered, with
\* unique positive labels: 1, 2, ... with no label left out (gap = 0) or with
\* the label gap left out.
NumberNodes(graph, gap) ==
    LET order == SortCommitSet(graph)
        position(c) == CHOOSE k \in 1..Len(order) : order[k] = c
    IN  [c \in graph |->
            IF gap # 0 /\ position(c) >= gap THEN position(c) + 1 ELSE position(c)]

\* The numberings number_nodes may return for a graph.
Numberings(graph) == { NumberNodes(graph, gap) : gap \in 0..Cardinality(graph) }

RenderGraph(graph) ==
    LET order == SortCommitSet(graph)
    IN  [k \in 1..Len(order) |-> WriteOut("graph_line", order[k])]

\* pick up to the return of prompt_for_range.
PickPrompt(line) ==
    /\ pc = "idle"
    /\ cmd' = "pick"
    /\ dag' = OpenAndSync
    /\ numbered_nodes' \in Numberings(MakeSmartlogGraph(OpenAndSync))
    /\ LET graph == MakeSmartlogGraph(OpenAndSync)
           max == Cardinality(DOMAIN numbered_nodes')
       IN  /\ log' = log \o RenderGraph(graph) \o PromptEffects(line, 1, max)
           /\ selected' = PromptSelection(line, 1, max)
           /\ IF selected' = NoSelection
              THEN /\ result' = Ok(1)
                   /\ pc' = "done"
              ELSE /\ result' = result
                   /\ pc' = "pick_checkout"
    /\ UNCHANGED << repo, prompt_call, appended, num_commits, towards, interactive,
                    current_oid, i, advanced >>

PickFailedWithOne(exit_code) == Ok(1)

\* What pick returns when the runner's exit code is not 0.
PickFailed(exit_code) == Ok(exit_code)

\* pick after a selection: the lookup of the selected number and the checkout.
PickCheckout(exit_code) ==
    /\ pc = "pick_checkout"
    /\ LET found == { c \in DOMAIN numbered_nodes : numbered_nodes[c] = selected }
       IN  IF found = {}
           THEN /\ result' = Panic
                /\ log' = log
           ELSE /\ log' = log \o << RunCheckout("oid", CHOOSE c \in found : TRUE),
                                     RunnerExit(exit_code) >>
                /\ result' = IF exit_code # 0 THEN PickFailed(exit_code) ELSE Ok(0)
    /\ pc' = "done"
    /\ UNCHANGED << repo, prompt_call, appended, numbered_nodes, cmd, num_commits,
                    towards, interactive, dag, current_oid, i,
                    advanced, selected >>

\* --------------------------------------------------------------------- Next

Next ==
    \/ \E n \in Counts \cup {NoCount}, exit_code \in ExitCodes : PrevCheckout(n, exit_code)
    \/ PrevSmartlog
    \/ \E n \in Counts \cup {NoCount}, tw \in Policies, inter \in BOOLEAN :
          NextBegin(n, tw, inter)
    \/ AdvanceStep
    \/ AdvanceReturn
    \/ NextCancelled
    \/ \E exit_code \in ExitCodes : NextCheckout(exit_code)
    \/ NextSmartlog
    \/ \E line \in InputLines : PickPrompt(line)
    \/ \E exit_code \in ExitCodes : PickCheckout(exit_code)

Spec == Init /\ [][Next]_vars

\* ------------------------------------------------------------- properties

\* Positions of the log holding an effect of the given kind.
LogIndices(op) == { k \in DOMAIN log : log[k].op = op }
Requested(op) == LogIndices(op) # {}

\* The non-obsolete children of a commit in the repository.
NonObsoleteChildren(c) == { d \in Commits : commit_parent[d] = c /\ d \notin obsolete }

\* The children queries advance made at a commit with two or more
\* non-obsolete children.
AmbiguousQueries ==
    { k \in LogIndices("children") : Cardinality(NonObsoleteChildren(log[k].n)) >= 2 }

\* advance has returned to next.
AdvanceReturned == cmd = "next" /\ pc \in {"advanced", "next_smartlog", "done"}
                   /\ head_oid # NoneOid

\* The child with the greatest (Newest) or least (Oldest) canonical key.
ExtremeChild(c, tw) ==
    CHOOSE x \in NonObsoleteChildren(c) :
        \A y \in NonObsoleteChildren(c) \ {x} :
            IF tw = "Newest" THEN CanonicalBefore(y, x) ELSE CanonicalBefore(x, y)

\* The end of the path of at most k steps that takes the extreme child at
\* every commit.
RECURSIVE PolicyPath(_, _, _)
PolicyPath(c, k, tw) ==
    IF k <= 0 \/ NonObsoleteChildren(c) = {} THEN c
    ELSE PolicyPath(ExtremeChild(c, tw), k - 1, tw)

\* C1: with policy Newest (Oldest), after every step of advance the current
\* commit is the end of the path that takes, at every commit, the child with
\* the greatest (least) canonical key, and advance returns the end of that
\* path of num_commits steps.
C1_PolicyTakesExtremeChild ==
    (cmd = "next" /\ head_oid # NoneOid /\ towards \in {"Newest", "Oldest"}) =>
        /\ current_oid = PolicyPath(head_oid, i, towards)
        /\ AdvanceReturned => advanced = PolicyPath(head_oid, num_commits, towards)

\* Newest was applied at two ambiguous steps of one traversal, and Oldest
\* would have ended elsewhere.
C1_Witness ==
    /\ AdvanceReturned /\ towards = "Newest"
    /\ Cardinality(AmbiguousQueries) >= 2
    /\ advanced # PolicyPath(head_oid, num_commits, "Oldest")

\* C2: a step of advance never moves to an obsolete commit, and at a commit
\* whose children are all obsolete it stops and returns that commit.
C2_ObsoleteNeverSelected ==
    [][ (pc = "advance" /\ i < num_commits) =>
            /\ current_oid' # current_oid => current_oid' \notin obsolete
            /\ (\A d \in Commits : commit_parent[d] = current_oid => d \in obsolete)
                  => (pc' = "advanced" /\ advanced' = current_oid) ]_vars

\* advance stopped early, after a step, at a commit that has children, all
\* of them obsolete.
C2_Witness ==
    /\ AdvanceReturned /\ advanced = current_oid
    /\ i >= 1 /\ i < num_commits
    /\ \E d \in Commits : commit_parent[d] = current_oid
    /\ NonObsoleteChildren(current_oid) = {}

\* C3: next without a policy and not interactive, once advance has queried a
\* commit with two or more non-obsolete children: advance returned the
\* cancellation, no checkout and no smartlog is requested, and next returns 1.
C3_AmbiguityCancels ==
    (cmd = "next" /\ towards = "None" /\ ~interactive /\ AmbiguousQueries # {}) =>
        /\ pc \in {"advanced", "done"}
        /\ advanced = NoneOid
        /\ ~Requested("checkout")
        /\ ~Requested("smartlog")
        /\ pc = "done" => result = Ok(1)

\* next returned 1 after the ambiguity met at a later step than the first.
C3_Witness ==
    /\ cmd = "next" /\ towards = "None" /\ ~interactive
    /\ pc = "done" /\ result = Ok(1)
    /\ \E k \in AmbiguousQueries : k > 1

\* C4: once the runner has answered a checkout with an exit code other than
\* 0, the orchestrator has returned exactly that code and no smartlog was
\* requested.
C4_CheckoutFailurePropagated ==
    \A k \in LogIndices("exit_code") :
        log[k].n # 0 =>
            /\ pc = "done"
            /\ result = Ok(log[k].n)
            /\ ~Requested("smartlog")

\* pick returned the runner's 128.
C4_Witness ==
    /\ cmd = "pick" /\ pc = "done"
    /\ log[Len(log)] = RunnerExit(128)
    /\ result = Ok(128)

\* The number of generations above HEAD a revision of prev names.
AncestorDepth(ev) == IF ev.what = "HEAD^" THEN 1 ELSE ev.n

\* C5: when prev, or next with a commit returned by advance, has returned,
\* the runner was asked exactly once, for the nth ancestor of HEAD (prev, n = 1
\* without a count) or the commit advance returned (next); if it answered 0,
\* exactly one smartlog was requested, right after it and as the last effect,
\* and the orchestrator returned 0.
C5_OneCheckoutThenOneRefresh ==
    (pc = "done" /\ (cmd = "prev" \/ (cmd = "next" /\ advanced # NoneOid))) =>
        /\ Cardinality(LogIndices("checkout")) = 1
        /\ \A k \in LogIndices("checkout") :
              /\ cmd = "prev" =>
                    /\ log[k].what \in {"HEAD^", "HEAD~"}
                    /\ AncestorDepth(log[k])
                         = (IF num_commits = NoCount THEN 1 ELSE num_commits)
              /\ cmd = "next" => log[k] = RunCheckout("oid", advanced)
              /\ log[k + 1] = RunnerExit(0) =>
                    /\ Cardinality(LogIndices("smartlog")) = 1
                    /\ Len(log) = k + 2
                    /\ log[k + 2] = Smartlog
                    /\ result = Ok(0)

\* prev(2) returned 0 after a checkout of HEAD~2 and a smartlog.
C5_Witness ==
    /\ cmd = "prev" /\ num_commits = 2 /\ pc = "done"
    /\ result = Ok(0)
    /\ log = << RunCheckout("HEAD~", 2), RunnerExit(0), Smartlog >>

\* C6: when pick has returned after a checkout the runner answered with 0,
\* a smartlog was requested as its last effect and pick returned 0.
C6_PickRefreshesView ==
    (cmd = "pick" /\ pc = "done" /\ Requested("checkout")
       /\ \E k \in LogIndices("exit_code") : log[k].n = 0) =>
        /\ result = Ok(0)
        /\ log[Len(log)] = Smartlog

\* next ran advance for one step or more from a HEAD without non-obsolete
\* children.
EarlyStopNoProgress ==
    /\ AdvanceReturned
    /\ num_commits >= 1
    /\ NonObsoleteChildren(head_oid) = {}

\* C7 as stated: when the traversal of next stops early with no progress,
\* next returns a non-zero result without asking the runner for a checkout.
C7_NoProgressIsFailure ==
    (EarlyStopNoProgress /\ pc = "done") =>
        /\ result.kind = "Ok" /\ result.code # 0
        /\ ~Requested("checkout")

\* C7 amended: when the traversal of next stops early with no progress,
\* advance returns HEAD as a resolved commit, and next asks the runner once
\* for a checkout of HEAD and returns the runner's exit code.
C7_NoProgressChecksOutHead ==
    EarlyStopNoProgress =>
        /\ advanced = head_oid
        /\ pc = "done" =>
              /\ Cardinality(LogIndices("checkout")) = 1
              /\ \A k \in LogIndices("checkout") :
                    /\ log[k] = RunCheckout("oid", head_oid)
                    /\ result = Ok(log[k + 1].n)

\* next(3) from a HEAD without children returned the runner's 128.
C7_Witness ==
    /\ EarlyStopNoProgress /\ pc = "done"
    /\ num_commits = 3
    /\ \A d \in Commits : commit_parent[d] # head_oid
    /\ Requested("checkout")
    /\ result = Ok(128)

\* The commit has exactly one child, and that child is obsolete.
SoleChildObsolete(c) ==
    \E d \in obsolete : { x \in Commits : commit_parent[x] = c } = {d}

\* C8: next(1) from a HEAD whose only child is obsolete: advance returns HEAD
\* itself, and when the runner answers the checkout of HEAD with 0, next
\* requests a smartlog as its last effect and returns 0.
C8_ObsoleteSoleChildStopsAtHead ==
    (AdvanceReturned /\ num_commits = 1 /\ SoleChildObsolete(head_oid)) =>
        /\ advanced = head_oid
        /\ log[1] = QueryChildren(head_oid)
        /\ (pc = "done" /\ Requested("exit_code")) =>
              /\ log[2] = RunCheckout("oid", head_oid)
              /\ log[3] = RunnerExit(0) =>
                    (result = Ok(0) /\ log[Len(log)] = Smartlog /\ Len(log) = 4)

\* next(1) from such a HEAD returned 0 after the smartlog.
C8_Witness ==
    /\ AdvanceReturned /\ num_commits = 1 /\ SoleChildObsolete(head_oid)
    /\ pc = "done" /\ result = Ok(0)
    /\ log[Len(log)] = Smartlog

\* C9: advance with num_commits = 0 makes no children query, reads no input
\* and returns the commit it started from.
C9_ZeroStepsNoQueries ==
    (cmd = "next" /\ head_oid # NoneOid /\ num_commits = 0) =>
        /\ ~Requested("children")
        /\ ~Requested("read_line")
        /\ ~Requested("stdout")
        /\ pc # "advance" => advanced = head_oid

\* advance returned from zero steps at a HEAD with two non-obsolete children,
\* interactive and without a policy.
C9_Witness ==
    /\ AdvanceReturned /\ num_commits = 0
    /\ pc = "advanced"
    /\ interactive /\ towards = "None"
    /\ Cardinality(NonObsoleteChildren(head_oid)) >= 2

\* C10: when next is given a negative count, advance is not run with it and
\* no checkout is requested.
C10_NegativeCountRejected ==
    (cmd = "next" /\ num_commits \in Counts /\ num_commits < 0) =>
        /\ pc \notin {"advance", "advanced", "next_smartlog"}
        /\ ~Requested("checkout")

\* The commit has at most one non-obsolete child, and so has every commit
\* below it.
RECURSIVE LinearFrom(_)
LinearFrom(c) ==
    /\ Cardinality(NonObsoleteChildren(c)) <= 1
    /\ \A d \in NonObsoleteChildren(c) : LinearFrom(d)

\* The commit k steps down the chain from c, or the last commit of the chain.
RECURSIVE ChainEnd(_, _)
ChainEnd(c, k) ==
    IF k <= 0 \/ NonObsoleteChildren(c) = {} THEN c
    ELSE ChainEnd(CHOOSE d \in NonObsoleteChildren(c) : TRUE, k - 1)

\* C11: on a linear chain advance, whatever the policy and the interactive
\* flag, is after i steps at the ith commit down the chain, returns the commit
\* num_commits steps down the chain or its last commit, and neither prompts
\* nor cancels.
C11_LinearChainSameResult ==
    (cmd = "next" /\ head_oid # NoneOid /\ LinearFrom(head_oid)) =>
        /\ current_oid = ChainEnd(head_oid, i)
        /\ AdvanceReturned => advanced = ChainEnd(head_oid, num_commits)
        /\ ~Requested("read_line")
        /\ ~Requested("stderr")
        /\ ~Requested("stdout")

\* advance, interactive and without a policy, stopped at the end of a chain
\* of two steps that is shorter than num_commits.
C11_Witness ==
    /\ AdvanceReturned /\ LinearFrom(head_oid)
    /\ interactive /\ towards = "None"
    /\ i = 2 /\ num_commits = 3
    /\ advanced = ChainEnd(head_oid, 3)
    /\ \E d \in Commits : commit_parent[d] = head_oid /\ d \in obsolete

\* ------------------------------------------- prompt_for_range on its own

\* A call of prompt_for_range with any range 1 <= min <= max and any line.
InitPrompt ==
    /\ commit_parent = [c \in Commits |-> c - 1]
    /\ commit_time = [c \in Commits |-> 0]
    /\ obsolete = {}
    /\ head_oid = NoneOid
    /\ pc = "idle"
    /\ cmd = "none"
    /\ num_commits = NoCount
    /\ towards = "None"
    /\ interactive = FALSE
    /\ dag = ClosedDag
    /\ current_oid = NoneOid
    /\ i = 0
    /\ advanced = NoneOid
    /\ selected = NoSelection
    /\ numbered_nodes = <<>>
    /\ result = Running
    /\ log = <<>>
    /\ prompt_in \in InputLines
    /\ prompt_max \in 1..NumCommits
    /\ prompt_min \in 1..prompt_max
    /\ appended = {}

\* prompt_for_range(effects, min, max)
PromptForRange ==
    /\ pc = "idle"
    /\ cmd' = "prompt_for_range"
    /\ log' = log \o PromptEffects(prompt_in, prompt_min, prompt_max)
    /\ selected' = PromptSelection(prompt_in, prompt_min, prompt_max)
    /\ pc' = "done"
    /\ UNCHANGED << repo, prompt_call, appended, numbered_nodes, num_commits, towards,
                    interactive, dag, current_oid, i, advanced, result >>

NextPrompt == PromptForRange

SpecPrompt == InitPrompt /\ [][NextPrompt]_vars

\* The unsigned integer each line of InputLines denotes, for the lines that
\* denote one.
LineDenotes ==
    { << <<"0", "\n">>, 0 >>, << <<"1", "\n">>, 1 >>, << <<"2", "\n">>, 2 >>,
      << <<" ", "2", " ", "\n">>, 2 >>, << <<"3", "\n">>, 3 >>,
      << <<"+", "1", "\n">>, 1 >>, << <<"4", "\n">>, 4 >>, << <<"5", "\n">>, 5 >>,
      << <<"6", "\n">>, 6 >>, << <<"7", "\n">>, 7 >>, << <<"1", "0", "\n">>, 10 >> }

\* C12: prompt_for_range with 1 <= min <= max returns the integer the line
\* denotes when it lies in [min, max], and "no selection" for every other
\* line, numeric or not; it reads one line and writes the prompt once.
C12_PromptReturnsParsedOrNothing ==
    (cmd = "prompt_for_range" /\ pc = "done") =>
        /\ \A v \in prompt_min..prompt_max :
              << prompt_in, v >> \in LineDenotes => selected = v
        /\ (\A v \in prompt_min..prompt_max : << prompt_in, v >> \notin LineDenotes)
              => selected = NoSelection
        /\ Cardinality(LogIndices("read_line")) = 1
        /\ Cardinality({ k \in LogIndices("stdout") : log[k].what = "select_prompt" }) = 1

\* The line " 2 " was accepted as the largest number of the range [1, 2].
C12_Witness ==
    /\ cmd = "prompt_for_range" /\ pc = "done"
    /\ prompt_in = << " ", "2", " ", "\n" >>
    /\ prompt_min = 1 /\ prompt_max = 2
    /\ selected = 2

\* ------------------------------------------------- properties, continued

\* prompt_for_range reported an invalid selection, that is returned None.
SelectionDeclined ==
    \E k \in LogIndices("stderr") : log[k].what = "invalid_selection"

\* C13: once the prompt of interactive next or of pick has returned "no
\* selection", the traversal is over with the cancellation (whatever steps it
\* made), no checkout and no smartlog is requested, and the orchestrator
\* returns 1.
C13_NoSelectionCancels ==
    (cmd \in {"next", "pick"} /\ SelectionDeclined) =>
        /\ selected = NoSelection
        /\ pc \in {"advanced", "done"}
        /\ cmd = "next" => advanced = NoneOid
        /\ ~Requested("checkout")
        /\ ~Requested("smartlog")
        /\ pc = "done" => result = Ok(1)

\* next returned 1 when the second prompt of a traversal was declined, after
\* a step chosen at the first prompt.
C13_Witness ==
    /\ cmd = "next" /\ interactive /\ SelectionDeclined
    /\ pc = "done" /\ result = Ok(1)
    /\ i >= 1
    /\ Cardinality(LogIndices("read_line")) = 2

\* C14: next without a HEAD commit returns the error right away: advance is
\* not entered, nothing is queried, written, checked out or refreshed.
C14_NoHeadFailsBeforeTraversal ==
    (cmd = "next" /\ head_oid = NoneOid) =>
        /\ pc = "done"
        /\ result.kind = "Err"
        /\ log = <<>>
        /\ current_oid = NoneOid /\ i = 0 /\ advanced = NoneOid

\* next -n 3 --newest --interactive returned the error in a repository
\* without HEAD whose root has two non-obsolete children.
C14_Witness ==
    /\ cmd = "next" /\ head_oid = NoneOid /\ pc = "done"
    /\ towards = "Newest" /\ interactive
    /\ result = Err
    /\ Cardinality(NonObsoleteChildren(1)) >= 2

\* C15: when pick has returned after a selection the prompt accepted, the
\* commit numbered with the selection was found and its checkout requested;
\* pick did not panic.
C15_PickLookupSucceeds ==
    (cmd = "pick" /\ pc = "done" /\ selected # NoSelection) =>
        /\ result.kind # "Panic"
        /\ \E c \in DOMAIN numbered_nodes :
              /\ numbered_nodes[c] = selected
              /\ \E k \in LogIndices("checkout") : log[k] = RunCheckout("oid", c)

\* ------------------------------- next while another process rewrites commits

\* A repository with HEAD at the root and at most MaxRewrites rewritten
\* commits.
InitConcurrent ==
    /\ Init
    /\ head_oid = 1
    /\ commit_time = [c \in Commits |-> 0]
    /\ Cardinality(obsolete) <= MaxRewrites

\* Another process appends a rewrite event to the event log while next is in
\* advance: commit c becomes obsolete in the repository.
AppendRewriteEvent(c) ==
    /\ pc = "advance"
    /\ dag.open
    /\ c \notin obsolete
    /\ Cardinality(appended) < MaxRewrites
    /\ obsolete' = obsolete \cup {c}
    /\ appended' = appended \cup {c}
    /\ UNCHANGED << commit_parent, commit_time, head_oid, pc, cmd, num_commits,
                    towards, interactive, dag, current_oid, i, advanced, selected,
                    numbered_nodes, result, log, prompt_call >>

NextConcurrent ==
    \/ \E n \in Counts \cup {NoCount}, tw \in Policies, inter \in BOOLEAN :
          NextBegin(n, tw, inter)
    \/ AdvanceStep
    \/ AdvanceReturn
    \/ NextCancelled
    \/ \E exit_code \in ExitCodes : NextCheckout(exit_code)
    \/ NextSmartlog
    \/ \E c \in Commits : AppendRewriteEvent(c)

SpecConcurrent == InitConcurrent /\ [][NextConcurrent]_vars

\* The obsolete set and the non-obsolete children when the Dag was opened.
ObsoleteAtOpen == obsolete \ appended
ChildrenAtOpen(c) == { d \in Commits : commit_parent[d] = c /\ d \notin ObsoleteAtOpen }

\* The end of the path of at most k steps over the graph as it was when the
\* Dag was opened, taking the child with the extreme canonical key.
RECURSIVE PathAtOpen(_, _, _)
PathAtOpen(c, k, tw) ==
    IF k <= 0 \/ ChildrenAtOpen(c) = {} THEN c
    ELSE PathAtOpen(
             CHOOSE x \in ChildrenAtOpen(c) :
                 \A y \in ChildrenAtOpen(c) \ {x} :
                     IF tw = "Newest" THEN CanonicalBefore(y, x)
                                      ELSE CanonicalBefore(x, y),
             k - 1, tw)

\* C16: whatever another process appends to the event log while next is in
\* advance, the Dag next opened stays the snapshot taken at open, every step
\* answers from it, and advance returns what it returns on that snapshot.
C16_TraversalReadsSnapshot ==
    (cmd = "next" /\ dag.open) =>
        /\ dag.obsolete_commits = ObsoleteAtOpen
        /\ dag.parent = commit_parent
        /\ current_oid # head_oid => current_oid \notin ObsoleteAtOpen
        /\ \A k \in LogIndices("stdout") :
              log[k].what = "child" => log[k].n \notin ObsoleteAtOpen
        /\ towards \in {"Newest", "Oldest"} =>
              /\ current_oid = PathAtOpen(head_oid, i, towards)
              /\ AdvanceReturned => advanced = PathAtOpen(head_oid, num_commits, towards)
        /\ (AdvanceReturned /\ advanced # NoneOid /\ i < num_commits) =>
              ChildrenAtOpen(advanced) = {}

\* advance returned a commit that another process made obsolete during the
\* traversal; on the repository as it is now it would have ended elsewhere.
C16_Witness ==
    /\ AdvanceReturned /\ towards = "Newest"
    /\ advanced \in appended
    /\ advanced # PolicyPath(head_oid, num_commits, towards)

\* --------------------------------------------------------- output streams

Diagnostics == {"multiple_next_commits", "pass_oldest_or_newest", "invalid_selection"}
Listings == {"child", "graph_line"}

\* C17: the ambiguity notice, the hint to pass a policy flag and the
\* invalid-selection message are written to the error stream, and the
\* listings of commits are written to the output stream.
C17_DiagnosticsOnErrorStream ==
    \A k \in 1..Len(log) :
        /\ log[k].what \in Diagnostics => log[k].op = "stderr"
        /\ log[k].what \in Listings => log[k].op = "stdout"

\* ------------------------------------------------------ interactive steps

\* advance is about to run an iteration under interactive, without a policy,
\* at a commit with two or more non-obsolete children.
AtInteractiveAmbiguity ==
    /\ cmd = "next" /\ pc = "advance" /\ i < num_commits
    /\ towards = "None" /\ interactive
    /\ Cardinality(NonObsoleteChildren(current_oid)) >= 2

\* What the iteration taken from a state of AtInteractiveAmbiguity does, k
\* being the number of non-obsolete children of the current commit.
InteractiveStep ==
    LET kids == NonObsoleteChildren(current_oid)
        k == Cardinality(kids)
        base == Len(log)
    IN  /\ Len(log') >= base + k + 4
        /\ log'[base + 1] = QueryChildren(current_oid)
        /\ \A s \in 1..k : /\ log'[base + 2 + s].what = "child"
                           /\ log'[base + 2 + s].n \in kids
        /\ log'[base + k + 3] = WriteOut("select_prompt", k)
        /\ log'[base + k + 4] = ReadLine
        /\ IF selected' # NoSelection
           THEN /\ selected' \in 1..k
                /\ current_oid' = log'[base + 2 + selected'].n
                /\ Cardinality({ d \in kids : CanonicalBefore(d, current_oid') })
                       = selected' - 1
                /\ i' = i + 1
                /\ pc' = "advance"
           ELSE pc' = "advanced"

\* C18: every interactive step without a policy at a commit with k >= 2
\* non-obsolete children prompts over 1..k; a valid selection s lies in 1..k,
\* moves to the child listed with number s, which is the s-th in canonical
\* order, and leaves advance in its loop with one more step counted, so that
\* a later ambiguous step prompts again.
C18_SelectionTakesNumberedChild ==
    [][AtInteractiveAmbiguity => InteractiveStep]_vars

\* Two prompts in one traversal, the first answered with the last number
\* listed.
C18_Witness ==
    /\ cmd = "next" /\ towards = "None" /\ interactive
    /\ Cardinality({ k \in LogIndices("stdout") : log[k].what = "select_prompt" }) >= 2
    /\ \E k \in LogIndices("stdout") :
          /\ log[k].what = "select_prompt"
          /\ log[k].n >= 2
          /\ \E m \in 1..Len(log) : log[m] = QueryChildren(log[k - 1].n)

\* ------------------------------------------------------ the path advance took

\* The commit k edges above c, or the root when c is less than k edges deep.
RECURSIVE AncestorAt(_, _)
AncestorAt(c, k) ==
    IF k <= 0 \/ commit_parent[c] = NoneOid THEN c
    ELSE AncestorAt(commit_parent[c], k - 1)

\* R is k edges below the start commit and every commit on the way down,
\* R included, is not obsolete.
ReachedIn(R, k) ==
    /\ AncestorAt(R, k) = head_oid
    /\ \A j \in 0..(k - 1) :
          /\ AncestorAt(R, j) \notin obsolete
          /\ AncestorAt(R, j) # head_oid

\* C19: when advance returns a commit R for num_commits >= 0, R lies k <=
\* num_commits edges below the start over non-obsolete children, at most
\* num_commits children queries were made, k < num_commits only if R has no
\* non-obsolete children, and R is obsolete only if it is the start commit.
C19_ResolvedCommitIsOnLivePath ==
    (AdvanceReturned /\ advanced # NoneOid /\ num_commits >= 0) =>
        /\ \E k \in 0..num_commits :
              /\ ReachedIn(advanced, k)
              /\ k < num_commits => NonObsoleteChildren(advanced) = {}
        /\ Cardinality(LogIndices("children")) <= num_commits
        /\ advanced \in obsolete => advanced = head_oid

\* advance stopped early, two edges below an obsolete start commit, after a
\* step that a prompt decided.
C19_Witness ==
    /\ AdvanceReturned /\ advanced # NoneOid
    /\ head_oid \in obsolete
    /\ ReachedIn(advanced, 2)
    /\ num_commits > 2
    /\ Requested("read_line")

\* ------------------------------------------- explicit policy and interactive

\* The events that only the selection prompt produces.
PromptEvents ==
    { k \in 1..Len(log) :
        \/ log[k].op = "read_line"
        \/ log[k].what \in {"select_prompt", "invalid_selection"} }

\* C20: with policy Newest or Oldest, whether interactive is set or not,
\* advance never prompts, never reads a line, writes no ambiguity listing,
\* never returns the cancellation outcome, keeps the selection unset, and
\* returns the commit that the graph, the start commit, num_commits and the
\* policy determine.
C20_PolicyOverridesInteractive ==
    (cmd = "next" /\ towards \in {"Newest", "Oldest"}) =>
        /\ PromptEvents = {}
        /\ LogIndices("stdout") = {}
        /\ selected = NoSelection
        /\ AdvanceReturned =>
              /\ advanced # NoneOid
              /\ advanced = PolicyPath(head_oid, num_commits, towards)
              /\ Cardinality(LogIndices("children")) =
                     i + (IF i < num_commits THEN 1 ELSE 0)

\* Interactive with policy Oldest: advance returned after passing a commit
\* with two or more non-obsolete children.
C20_Witness ==
    /\ AdvanceReturned /\ interactive /\ towards = "Oldest"
    /\ AmbiguousQueries # {}
    /\ advanced # head_oid

====
